---- MODULE Spec2Model ----
(***************************************************************************)
(* Organization Management Service (src/main.py).                          *)
(*                                                                         *)
(* The master database holds the organizations collection (unique index on *)
(* organization_name), the admins collection (unique index on email) and   *)
(* one dynamically named collection per organization.  Every request       *)
(* handler is a coroutine: it runs atomically between two awaits, and each  *)
(* await of a store call is one step of the model.  Spec interleaves the   *)
(* steps of the requests of several clients; SeqSpec runs one request at a *)
(* time to completion.                                                     *)
(***************************************************************************)
EXTENDS Integers, Sequences, FiniteSets, TLC

VARIABLES
    orgs,      \* documents of master_db["organizations"]
    admins,    \* documents of master_db["admins"]
    colls,     \* collection name -> documents of master_db[name], in insertion order
    nextId,    \* the next ObjectId the driver generates
    tokens,    \* access tokens returned by /admin/login so far (held by clients)
    now,       \* datetime.utcnow(), in minutes
    pc,        \* per request slot: the await the handler is suspended at
    req,       \* per request slot: the request being served
    loc,       \* per request slot: the handler's local variables
    resp,      \* per request slot: the response produced
    served,    \* requests admitted so far (bounded in Spec)
    pre        \* observer of SeqSpec: the database when the current request arrived

vars == <<orgs, admins, colls, nextId, tokens, now, pc, req, loc, resp, served, pre>>

(***************************************************************************)
(* Bounds of the model.                                                    *)
(***************************************************************************)
MaxId == 4        \* ObjectIds generated in a behaviour
MaxTokens == 1    \* tokens kept by clients
TickMinutes == 31 \* minutes by which the clock advances, once in a behaviour
MaxRequests == 4  \* requests admitted in a behaviour of Spec

\* the request slots: two requests may be in progress at once
Procs == {1, 2}

(***************************************************************************)
(* Configuration, src/main.py lines 17-19 and 99.                          *)
(***************************************************************************)
ACCESS_TOKEN_EXPIRE_MINUTES == 30
DEFAULT_EXPIRE_MINUTES == 15

(***************************************************************************)
(* Input domains.  An organization name is a sequence of characters.       *)
(***************************************************************************)
Chars == {"A", "a", "b", "X", "y", "z", " ", "-", "_"}

NameAdashB == <<"A", "-", "b">>
NameAspaceB == <<"a", " ", "b">>
NameXyz == <<"X", "y", "z">>
Names == {NameAdashB, NameAspaceB, NameXyz}

Emails == {"a@x.com", "b@x.com"}
GoodPassword == "password123"
CreatePasswords == {GoodPassword}
Passwords == {GoodPassword, "WrongPassword"}

None == "None"
NoId == 0
NoName == <<>>

(***************************************************************************)
(* str.lower(), restricted to Chars.                                       *)
(***************************************************************************)
Lower(c) ==
    CASE c = "A" -> "a"
      [] c = "X" -> "x"
      [] OTHER -> c

Replace(c, from, to) == IF c = from THEN to ELSE c

OrgPrefix == <<"o", "r", "g", "_">>

\* sanitize_collection_name: "org_" + name.lower().replace(' ', '_').replace('-', '_')
sanitize_collection_name(name) ==
    OrgPrefix \o [i \in 1..Len(name) |->
                    Replace(Replace(Lower(name[i]), " ", "_"), "-", "_")]

CollNames == {sanitize_collection_name(n) : n \in Names}

(***************************************************************************)
(* Credential helpers.                                                     *)
(***************************************************************************)
\* pwd_context.hash: one-way; the model keeps the plain text inside a tagged value
hash_password(password) == <<"bcrypt", password>>

verify_password(plain_password, hashed_password) ==
    hashed_password = hash_password(plain_password)

NoToken ==
    [sig |-> "none", sub |-> None, org_id |-> NoId, org_name |-> NoName,
     role |-> None, exp |-> 0]

\* mutant: the expires_delta argument is ignored
TokenExpiryDefault(expires_delta) == now + DEFAULT_EXPIRE_MINUTES

\* the expiry create_access_token stamps: now + expires_delta, or now + 15 minutes
TokenExpiry(expires_delta) ==
    IF expires_delta # 0 THEN now + expires_delta ELSE now + DEFAULT_EXPIRE_MINUTES

\* create_access_token(data, expires_delta): data plus exp, signed with SECRET_KEY
create_access_token(data, expires_delta) ==
    [sig |-> "valid", sub |-> data.sub, org_id |-> data.org_id,
     org_name |-> data.org_name, role |-> data.role,
     exp |-> TokenExpiry(expires_delta)]

\* bearer strings that no login issued: malformed, signed with another key,
\* and signed payloads lacking a required claim
ForgedTokens ==
    { [sig |-> "malformed", sub |-> None, org_id |-> NoId, org_name |-> NoName,
       role |-> None, exp |-> 0],
      [sig |-> "invalid", sub |-> "a@x.com", org_id |-> 1, org_name |-> NameXyz,
       role |-> "admin", exp |-> 0],
      [sig |-> "valid", sub |-> None, org_id |-> 1, org_name |-> NameXyz,
       role |-> "admin", exp |-> 0],
      [sig |-> "valid", sub |-> "a@x.com", org_id |-> NoId, org_name |-> NameXyz,
       role |-> "admin", exp |-> 0] }

\* jwt.decode raises ExpiredSignatureError when exp is in the past
TokenExpired(token, t) == token.exp < t

\* mutant: the JWTError handler comes first and also catches the expiry error
get_current_admin_JWTErrorFirst(token, t) ==
    IF token.sig # "valid" \/ TokenExpired(token, t)
        THEN [ok |-> FALSE, status |-> 401, detail |-> "Could not validate credentials",
              email |-> None, org_id |-> NoId]
    ELSE IF token.sub = None \/ token.org_id = NoId
        THEN [ok |-> FALSE, status |-> 401,
              detail |-> "Invalid authentication credentials",
              email |-> None, org_id |-> NoId]
    ELSE [ok |-> TRUE, status |-> 200, detail |-> "",
          email |-> token.sub, org_id |-> token.org_id]

\* get_current_admin: the outcome for a bearer token at time t
get_current_admin(token, t) ==
    IF token.sig # "valid"
        THEN [ok |-> FALSE, status |-> 401, detail |-> "Could not validate credentials",
              email |-> None, org_id |-> NoId]
    ELSE IF TokenExpired(token, t)
        THEN [ok |-> FALSE, status |-> 401, detail |-> "Token has expired",
              email |-> None, org_id |-> NoId]
    ELSE IF token.sub = None \/ token.org_id = NoId
        THEN [ok |-> FALSE, status |-> 401,
              detail |-> "Invalid authentication credentials",
              email |-> None, org_id |-> NoId]
    ELSE [ok |-> TRUE, status |-> 200, detail |-> "",
          email |-> token.sub, org_id |-> token.org_id]

(***************************************************************************)
(* Store helpers (motor / MongoDB).                                        *)
(***************************************************************************)
NoOrg ==
    [id |-> NoId, organization_name |-> NoName, collection_name |-> NoName,
     status |-> "none"]

NoAdmin ==
    [email |-> None, password |-> <<>>, organization_id |-> NoId,
     organization_name |-> NoName, role |-> None]

\* organizations_collection.find_one({"organization_name": name})
FindOrgIn(os, name) ==
    IF \E o \in os : o.organization_name = name
        THEN CHOOSE o \in os : o.organization_name = name
        ELSE NoOrg

FindOrg(name) == FindOrgIn(orgs, name)

\* admins_collection.find_one({"email": email})
FindAdminIn(as, email) ==
    IF \E a \in as : a.email = email
        THEN CHOOSE a \in as : a.email = email
        ELSE NoAdmin

FindAdmin(email) == FindAdminIn(admins, email)

\* mutant: the unique index on organization_name was never created
NoUniqueIndex(name, exceptId) == FALSE

\* the unique index on organizations.organization_name refuses a second document
OrgNameTaken(name, exceptId) ==
    \E o \in orgs : o.organization_name = name /\ o.id # exceptId

\* the unique index on admins.email refuses a second document
EmailTaken(email) == \E a \in admins : a.email = email

\* the _id values of a list of documents
IdsOf(docs) == {docs[i]._id : i \in 1..Len(docs)}

\* insert_many(docs), ordered: documents are inserted in order up to the first
\* whose _id is already in the collection
RECURSIVE InsertMany(_, _)
InsertMany(coll, docs) ==
    IF docs = <<>> THEN [coll |-> coll, ok |-> TRUE]
    ELSE IF Head(docs)._id \in IdsOf(coll) THEN [coll |-> coll, ok |-> FALSE]
    ELSE InsertMany(Append(coll, Head(docs)), Tail(docs))

InitDoc(id) == [_id |-> id, type |-> "initialization", initialized |-> TRUE]

(***************************************************************************)
(* Requests, locals and responses.                                         *)
(***************************************************************************)
NoReq ==
    [op |-> "none", name |-> NoName, new_name |-> NoName, email |-> None,
     password |-> None, token |-> NoToken]

NoLoc ==
    [existing_org |-> NoOrg, documents |-> <<>>,
     current_admin |-> [email |-> None, org_id |-> NoId], org_id |-> NoId]

NoResp ==
    [status |-> 0, detail |-> "", collection_name |-> NoName, token |-> NoToken]

NoPre == [orgs |-> {}, admins |-> {}, colls |-> <<>>, set |-> FALSE]

Response(status, detail) ==
    [status |-> status, detail |-> detail, collection_name |-> NoName,
     token |-> NoToken]

Db == [orgs |-> orgs, admins |-> admins, colls |-> colls, set |-> TRUE]

Idle(p) == pc[p] = "idle"

\* a request arrives at slot p and runs up to its next await (or to its end)
Begin(p, r, label, locals, response) ==
    /\ Idle(p)
    /\ pc' = [pc EXCEPT ![p] = label]
    /\ req' = [req EXCEPT ![p] = r]
    /\ loc' = [loc EXCEPT ![p] = IF label = "done" THEN NoLoc ELSE locals]
    /\ resp' = [resp EXCEPT ![p] = response]

\* the handler of slot p raises or returns with response r
Finish(p, r) ==
    /\ pc' = [pc EXCEPT ![p] = "done"]
    /\ loc' = [loc EXCEPT ![p] = NoLoc]
    /\ resp' = [resp EXCEPT ![p] = r]
    /\ UNCHANGED req

\* the handler of slot p is suspended at its next await with these locals
Goto(p, label, locals) ==
    /\ pc' = [pc EXCEPT ![p] = label]
    /\ loc' = [loc EXCEPT ![p] = locals]
    /\ UNCHANGED <<req, resp>>

Init ==
    /\ orgs = {}
    /\ admins = {}
    /\ colls = [c \in CollNames |-> <<>>]
    /\ nextId = 1
    /\ tokens = {}
    /\ now = 0
    /\ pc = [p \in Procs |-> "idle"]
    /\ req = [p \in Procs |-> NoReq]
    /\ loc = [p \in Procs |-> NoLoc]
    /\ resp = [p \in Procs |-> NoResp]
    /\ served = 0
    /\ pre = NoPre

(***************************************************************************)
(* POST /org/create, create_organization.                                  *)
(***************************************************************************)
CreateReq(name, email, password) ==
    [NoReq EXCEPT !.op = "create", !.name = name, !.email = email,
                  !.password = password]

\* find_one on organizations: the existence pre-check of the name
CreateFindOrg(p, name, email, password) ==
    /\ nextId < MaxId
    /\ IF FindOrg(name) # NoOrg
           THEN Begin(p, CreateReq(name, email, password), "done", NoLoc,
                      Response(400, "Organization name already exists"))
           ELSE Begin(p, CreateReq(name, email, password), "c_find_admin", NoLoc,
                      NoResp)
    /\ UNCHANGED <<orgs, admins, colls, nextId, tokens, now>>

\* find_one on admins: the existence pre-check of the email
CreateFindAdmin(p) ==
    /\ pc[p] = "c_find_admin"
    /\ IF FindAdmin(req[p].email) # NoAdmin
           THEN Finish(p, Response(400, "Admin email already exists"))
           ELSE Goto(p, "c_insert_org", loc[p])
    /\ UNCHANGED <<orgs, admins, colls, nextId, tokens, now>>

\* the organization document create_organization inserts
OrgDocument(id, name) ==
    [id |-> id, organization_name |-> name,
     collection_name |-> sanitize_collection_name(name), status |-> "active"]

\* insert_one on organizations; DuplicateKeyError is not caught (HTTP 500)
CreateInsertOrg(p) ==
    /\ pc[p] = "c_insert_org"
    /\ IF OrgNameTaken(req[p].name, NoId)
           THEN /\ Finish(p, Response(500, "DuplicateKeyError"))
                /\ UNCHANGED <<orgs, nextId>>
           ELSE /\ orgs' = orgs \cup {OrgDocument(nextId, req[p].name)}
                /\ nextId' = nextId + 1
                /\ Goto(p, "c_insert_admin", [loc[p] EXCEPT !.org_id = nextId])
    /\ UNCHANGED <<admins, colls, tokens, now>>

\* the admin document create_organization inserts
AdminDocument(email, password, org_id, name) ==
    [email |-> email, password |-> hash_password(password),
     organization_id |-> org_id, organization_name |-> name, role |-> "admin"]

\* insert_one on admins; DuplicateKeyError is not caught (HTTP 500)
CreateInsertAdmin(p) ==
    /\ pc[p] = "c_insert_admin"
    /\ IF EmailTaken(req[p].email)
           THEN /\ Finish(p, Response(500, "DuplicateKeyError"))
                /\ UNCHANGED admins
           ELSE /\ admins' = admins \cup
                      {AdminDocument(req[p].email, req[p].password,
                                     loc[p].org_id, req[p].name)}
                /\ Goto(p, "c_insert_doc", loc[p])
    /\ UNCHANGED <<orgs, colls, nextId, tokens, now>>

\* insert_one of the initialization marker into the organization's collection
CreateInsertDoc(p) ==
    /\ pc[p] = "c_insert_doc"
    /\ LET c == sanitize_collection_name(req[p].name) IN
        /\ colls' = [colls EXCEPT ![c] = Append(@, InitDoc(nextId))]
        /\ nextId' = nextId + 1
        /\ Finish(p, [Response(201, "Organization created successfully")
                        EXCEPT !.collection_name = c])
    /\ UNCHANGED <<orgs, admins, tokens, now>>

(***************************************************************************)
(* GET /org/get, get_organization.                                         *)
(***************************************************************************)
\* the response of get_organization for a name
GetResponse(name) ==
    IF FindOrg(name) = NoOrg
        THEN Response(404, "Organization not found")
        ELSE [Response(200, "Organization retrieved successfully")
                EXCEPT !.collection_name = FindOrg(name).collection_name]

\* mutant: a found organization gets an access marker written into its partition
GetOrganizationMarksAccess(p, name) ==
    /\ Begin(p, [NoReq EXCEPT !.op = "get", !.name = name], "done", NoLoc,
             GetResponse(name))
    /\ colls' = IF FindOrg(name) = NoOrg
                    THEN colls
                    ELSE [colls EXCEPT ![FindOrg(name).collection_name] =
                                           Append(@, InitDoc(NoId))]
    /\ UNCHANGED <<orgs, admins, nextId, tokens, now>>

GetOrganization(p, name) ==
    /\ Begin(p, [NoReq EXCEPT !.op = "get", !.name = name], "done", NoLoc,
             GetResponse(name))
    /\ UNCHANGED <<orgs, admins, colls, nextId, tokens, now>>

(***************************************************************************)
(* POST /admin/login, admin_login.                                         *)
(***************************************************************************)
\* the claims admin_login puts in the token
LoginClaims(admin) ==
    [sub |-> admin.email, org_id |-> admin.organization_id,
     org_name |-> admin.organization_name, role |-> admin.role]

\* mutant: a wrong password gets a message of its own
LoginResponseLeaky(email, password) ==
    LET admin == FindAdmin(email) IN
    IF admin = NoAdmin
        THEN Response(401, "Invalid email or password")
    ELSE IF ~verify_password(password, admin.password)
        THEN Response(401, "Invalid password")
    ELSE [Response(200, "bearer") EXCEPT !.token =
            create_access_token(LoginClaims(admin), ACCESS_TOKEN_EXPIRE_MINUTES)]

\* the response of admin_login
LoginResponse(email, password) ==
    LET admin == FindAdmin(email) IN
    IF admin = NoAdmin
        THEN Response(401, "Invalid email or password")
    ELSE IF ~verify_password(password, admin.password)
        THEN Response(401, "Invalid email or password")
    ELSE [Response(200, "bearer") EXCEPT !.token =
            create_access_token(LoginClaims(admin), ACCESS_TOKEN_EXPIRE_MINUTES)]

AdminLogin(p, email, password) ==
    LET r == LoginResponse(email, password) IN
    /\ Begin(p, [NoReq EXCEPT !.op = "login", !.email = email,
                              !.password = password], "done", NoLoc, r)
    \* the client keeps the token while it has room for it
    /\ tokens' = IF r.status = 200 /\ Cardinality(tokens \cup {r.token}) <= MaxTokens
                     THEN tokens \cup {r.token}
                     ELSE tokens
    /\ UNCHANGED <<orgs, admins, colls, nextId, now>>

\* the response is delivered to the client and the slot is free again
Return(p) ==
    /\ pc[p] = "done"
    /\ pc' = [pc EXCEPT ![p] = "idle"]
    /\ req' = [req EXCEPT ![p] = NoReq]
    /\ resp' = [resp EXCEPT ![p] = NoResp]
    /\ UNCHANGED <<orgs, admins, colls, nextId, tokens, now, loc>>

\* datetime.utcnow() advances; the handlers read the clock only in the step a
\* request arrives in, so the clock moves between requests
Tick ==
    /\ \A p \in Procs : Idle(p)
    /\ now < TickMinutes
    /\ now' = now + TickMinutes
    /\ UNCHANGED <<orgs, admins, colls, nextId, tokens, pc, req, loc, resp>>

(***************************************************************************)
(* PUT /org/update, update_organization.                                   *)
(***************************************************************************)
RenameReq(old_name, new_name, email, password) ==
    [NoReq EXCEPT !.op = "rename", !.name = old_name, !.new_name = new_name,
                  !.email = email, !.password = password]

\* find_one on organizations for the current name
RenameFindOrg(p, old_name, new_name, email, password) ==
    /\ IF FindOrg(old_name) = NoOrg
           THEN Begin(p, RenameReq(old_name, new_name, email, password), "done",
                      NoLoc, Response(404, "Organization not found"))
           ELSE Begin(p, RenameReq(old_name, new_name, email, password),
                      "r_find_admin",
                      [NoLoc EXCEPT !.existing_org = FindOrg(old_name)], NoResp)
    /\ UNCHANGED <<orgs, admins, colls, nextId, tokens, now>>

\* mutant: the password is verified before the admin's organization is compared
RenameFindAdminPasswordFirst(p) ==
    /\ pc[p] = "r_find_admin"
    /\ LET admin == FindAdmin(req[p].email) IN
        IF admin = NoAdmin
            THEN Finish(p, Response(403, "Unauthorized: Invalid admin credentials"))
        ELSE IF ~verify_password(req[p].password, admin.password)
            THEN Finish(p, Response(403, "Unauthorized: Invalid password"))
        ELSE IF admin.organization_name # req[p].name
            THEN Finish(p, Response(403, "Unauthorized: Invalid admin credentials"))
        ELSE IF req[p].new_name # req[p].name
            THEN Goto(p, "r_find_new", loc[p])
        ELSE Goto(p, "r_read_docs", loc[p])
    /\ UNCHANGED <<orgs, admins, colls, nextId, tokens, now>>

\* find_one on admins, then the two credential checks
RenameFindAdmin(p) ==
    /\ pc[p] = "r_find_admin"
    /\ LET admin == FindAdmin(req[p].email) IN
        IF admin = NoAdmin \/ admin.organization_name # req[p].name
            THEN Finish(p, Response(403, "Unauthorized: Invalid admin credentials"))
        ELSE IF ~verify_password(req[p].password, admin.password)
            THEN Finish(p, Response(403, "Unauthorized: Invalid password"))
        ELSE IF req[p].new_name # req[p].name
            THEN Goto(p, "r_find_new", loc[p])
        ELSE Goto(p, "r_read_docs", loc[p])
    /\ UNCHANGED <<orgs, admins, colls, nextId, tokens, now>>

\* find_one on organizations for the new name
RenameFindNew(p) ==
    /\ pc[p] = "r_find_new"
    /\ IF FindOrg(req[p].new_name) # NoOrg
           THEN Finish(p, Response(400, "New organization name already exists"))
           ELSE Goto(p, "r_read_docs", loc[p])
    /\ UNCHANGED <<orgs, admins, colls, nextId, tokens, now>>

\* old_collection.find().to_list(): every document of the old collection
RenameReadDocs(p) ==
    /\ pc[p] = "r_read_docs"
    /\ LET documents == colls[loc[p].existing_org.collection_name] IN
        Goto(p, IF documents # <<>> THEN "r_insert_many" ELSE "r_update_org",
             [loc[p] EXCEPT !.documents = documents])
    /\ UNCHANGED <<orgs, admins, colls, nextId, tokens, now>>

\* new_collection.insert_many(documents); BulkWriteError is not caught (HTTP 500)
RenameInsertMany(p) ==
    /\ pc[p] = "r_insert_many"
    /\ LET c == sanitize_collection_name(req[p].new_name)
           r == InsertMany(colls[c], loc[p].documents) IN
        /\ colls' = [colls EXCEPT ![c] = r.coll]
        /\ IF r.ok THEN Goto(p, "r_update_org", loc[p])
                   ELSE Finish(p, Response(500, "BulkWriteError"))
    /\ UNCHANGED <<orgs, admins, nextId, tokens, now>>

\* mutant: the $set leaves collection_name as it was
RenamedOrgKeepsCollection(o, new_name) ==
    [o EXCEPT !.organization_name = new_name]

\* the $set of update_organization on the organization document
RenamedOrg(o, new_name) ==
    [o EXCEPT !.organization_name = new_name,
              !.collection_name = sanitize_collection_name(new_name)]

\* mutant: the filter of update_one matches no organization document
RenameUpdateOrgNoMatch(p) ==
    /\ pc[p] = "r_update_org"
    /\ orgs' = orgs
    /\ Goto(p, "r_update_admin", loc[p])
    /\ UNCHANGED <<admins, colls, nextId, tokens, now>>

\* mutant: the old collection is dropped before the organization document is
\* updated
RenameUpdateOrgAfterDrop(p) ==
    /\ pc[p] = "r_update_org"
    /\ colls' = [colls EXCEPT ![loc[p].existing_org.collection_name] = <<>>]
    /\ LET o == FindOrg(req[p].name) IN
        IF o = NoOrg
            THEN /\ UNCHANGED orgs
                 /\ Goto(p, "r_update_admin", loc[p])
        ELSE IF OrgNameTaken(req[p].new_name, o.id)
            THEN /\ UNCHANGED orgs
                 /\ Finish(p, Response(500, "DuplicateKeyError"))
        ELSE /\ orgs' = (orgs \ {o}) \cup {RenamedOrg(o, req[p].new_name)}
             /\ Goto(p, "r_update_admin", loc[p])
    /\ UNCHANGED <<admins, nextId, tokens, now>>

\* update_one on organizations, filtered by the old name; DuplicateKeyError is
\* not caught (HTTP 500)
RenameUpdateOrg(p) ==
    /\ pc[p] = "r_update_org"
    /\ LET o == FindOrg(req[p].name) IN
        IF o = NoOrg
            THEN /\ UNCHANGED orgs
                 /\ Goto(p, "r_update_admin", loc[p])
        ELSE IF OrgNameTaken(req[p].new_name, o.id)
            THEN /\ UNCHANGED orgs
                 /\ Finish(p, Response(500, "DuplicateKeyError"))
        ELSE /\ orgs' = (orgs \ {o}) \cup {RenamedOrg(o, req[p].new_name)}
             /\ Goto(p, "r_update_admin", loc[p])
    /\ UNCHANGED <<admins, colls, nextId, tokens, now>>

\* mutant: the admin document is not updated
RenameUpdateAdminSkipped(p) ==
    /\ pc[p] = "r_update_admin"
    /\ admins' = admins
    /\ Goto(p, "r_drop", loc[p])
    /\ UNCHANGED <<orgs, colls, nextId, tokens, now>>

\* update_one on admins, filtered by the email
RenameUpdateAdmin(p) ==
    /\ pc[p] = "r_update_admin"
    /\ admins' = {IF a.email = req[p].email
                      THEN [a EXCEPT !.organization_name = req[p].new_name]
                      ELSE a : a \in admins}
    /\ Goto(p, "r_drop", loc[p])
    /\ UNCHANGED <<orgs, colls, nextId, tokens, now>>

\* old_collection.drop()
RenameDrop(p) ==
    /\ pc[p] = "r_drop"
    /\ colls' = [colls EXCEPT ![loc[p].existing_org.collection_name] = <<>>]
    /\ Finish(p, [Response(200, "Organization updated successfully")
                    EXCEPT !.collection_name =
                               sanitize_collection_name(req[p].new_name)])
    /\ UNCHANGED <<orgs, admins, nextId, tokens, now>>

(***************************************************************************)
(* DELETE /org/delete, delete_organization.                                *)
(***************************************************************************)
\* the outcome of the ownership check for the admin document found (or not found)
DeleteCheck(admin, name) ==
    IF admin = NoAdmin
        THEN Response(500, "TypeError")        \* admin["organization_name"] on None
    ELSE IF admin.organization_name # name
        THEN Response(403, "Unauthorized: You can only delete your own organization")
    ELSE NoResp

\* the get_current_admin dependency, then find_one on organizations
DeleteFindOrg(p, name, token) ==
    /\ LET auth == get_current_admin(token, now)
           r == [NoReq EXCEPT !.op = "delete", !.name = name, !.token = token]
       IN
        IF ~auth.ok
            THEN Begin(p, r, "done", NoLoc, Response(auth.status, auth.detail))
        ELSE IF FindOrg(name) = NoOrg
            THEN Begin(p, r, "done", NoLoc, Response(404, "Organization not found"))
        ELSE Begin(p, r, "d_find_admin",
                   [NoLoc EXCEPT !.existing_org = FindOrg(name),
                                 !.current_admin =
                                     [email |-> auth.email, org_id |-> auth.org_id]],
                   NoResp)
    /\ UNCHANGED <<orgs, admins, colls, nextId, tokens, now>>

\* find_one on admins for the token's email, then the ownership check
DeleteFindAdmin(p) ==
    /\ pc[p] = "d_find_admin"
    /\ LET r == DeleteCheck(FindAdmin(loc[p].current_admin.email), req[p].name) IN
        IF r = NoResp THEN Goto(p, "d_drop", loc[p]) ELSE Finish(p, r)
    /\ UNCHANGED <<orgs, admins, colls, nextId, tokens, now>>

\* mutant: a lock makes Delete wait while a Rename of the organization is
\* between its checks and its return
DeleteDropLocked(p) ==
    /\ pc[p] = "d_drop"
    /\ \A q \in Procs :
           ~(/\ req[q].op = "rename"
             /\ req[q].name = req[p].name
             /\ pc[q] \in {"r_read_docs", "r_insert_many", "r_update_org",
                            "r_update_admin", "r_drop"})
    /\ colls' = [colls EXCEPT ![loc[p].existing_org.collection_name] = <<>>]
    /\ Goto(p, "d_delete_org", loc[p])
    /\ UNCHANGED <<orgs, admins, nextId, tokens, now>>

\* master_db[collection_name].drop()
DeleteDrop(p) ==
    /\ pc[p] = "d_drop"
    /\ colls' = [colls EXCEPT ![loc[p].existing_org.collection_name] = <<>>]
    /\ Goto(p, "d_delete_org", loc[p])
    /\ UNCHANGED <<orgs, admins, nextId, tokens, now>>

\* delete_one on organizations, filtered by the name
DeleteOrg(p) ==
    /\ pc[p] = "d_delete_org"
    /\ orgs' = orgs \ {FindOrg(req[p].name)}
    /\ Goto(p, "d_delete_admins", loc[p])
    /\ UNCHANGED <<admins, colls, nextId, tokens, now>>

\* mutant: delete_many filters on a field no admin document matches
DeleteAdminsNoMatch(p) ==
    /\ pc[p] = "d_delete_admins"
    /\ admins' = admins
    /\ Finish(p, Response(200, "Organization deleted successfully"))
    /\ UNCHANGED <<orgs, colls, nextId, tokens, now>>

\* delete_many on admins, filtered by organization_name
DeleteAdmins(p) ==
    /\ pc[p] = "d_delete_admins"
    /\ admins' = {a \in admins : a.organization_name # req[p].name}
    /\ Finish(p, Response(200, "Organization deleted successfully"))
    /\ UNCHANGED <<orgs, colls, nextId, tokens, now>>

(***************************************************************************)
(* Specifications.                                                         *)
(***************************************************************************)
\* the inputs of concurrent clients
ConcNames == {NameAdashB, NameXyz}
ConcPasswords == {GoodPassword}

\* Spec admits a bounded number of requests and does not use the observer pre
Admit ==
    /\ served < MaxRequests
    /\ served' = served + 1
    /\ UNCHANGED pre

Run == UNCHANGED <<served, pre>>

\* requests are served concurrently: any slot may take its next step
Next ==
    \/ \E p \in Procs, name \in ConcNames, email \in Emails,
          password \in ConcPasswords :
            CreateFindOrg(p, name, email, password) /\ Admit
    \/ \E p \in Procs : CreateFindAdmin(p) /\ Run
    \/ \E p \in Procs : CreateInsertOrg(p) /\ Run
    \/ \E p \in Procs : CreateInsertAdmin(p) /\ Run
    \/ \E p \in Procs : CreateInsertDoc(p) /\ Run
    \/ \E p \in Procs, old_name \in ConcNames, new_name \in ConcNames,
          email \in Emails, password \in ConcPasswords :
            RenameFindOrg(p, old_name, new_name, email, password) /\ Admit
    \/ \E p \in Procs : RenameFindAdmin(p) /\ Run
    \/ \E p \in Procs : RenameFindNew(p) /\ Run
    \/ \E p \in Procs : RenameReadDocs(p) /\ Run
    \/ \E p \in Procs : RenameInsertMany(p) /\ Run
    \/ \E p \in Procs : RenameUpdateOrg(p) /\ Run
    \/ \E p \in Procs : RenameUpdateAdmin(p) /\ Run
    \/ \E p \in Procs : RenameDrop(p) /\ Run
    \/ \E p \in Procs, name \in ConcNames, token \in tokens :
            DeleteFindOrg(p, name, token) /\ Admit
    \/ \E p \in Procs : DeleteFindAdmin(p) /\ Run
    \/ \E p \in Procs : DeleteDrop(p) /\ Run
    \/ \E p \in Procs : DeleteOrg(p) /\ Run
    \/ \E p \in Procs : DeleteAdmins(p) /\ Run
    \/ \E p \in Procs, email \in Emails, password \in ConcPasswords :
            AdminLogin(p, email, password) /\ Admit
    \/ \E p \in Procs : Return(p) /\ Run

Spec == Init /\ [][Next]_vars

\* the slot of the one client of SeqSpec
Solo == 1

\* pre holds the database as the current request found it
Arrive ==
    /\ pre' = Db
    /\ UNCHANGED served

Keep == UNCHANGED <<served, pre>>

Forget ==
    /\ pre' = NoPre
    /\ UNCHANGED served

\* requests are served one at a time, each to completion
SeqNext ==
    \/ \E name \in Names, email \in Emails, password \in CreatePasswords :
            CreateFindOrg(Solo, name, email, password) /\ Arrive
    \/ CreateFindAdmin(Solo) /\ Keep
    \/ CreateInsertOrg(Solo) /\ Keep
    \/ CreateInsertAdmin(Solo) /\ Keep
    \/ CreateInsertDoc(Solo) /\ Keep
    \/ \E name \in Names : GetOrganization(Solo, name) /\ Arrive
    \/ \E old_name \in Names, new_name \in Names, email \in Emails,
          password \in Passwords :
            RenameFindOrg(Solo, old_name, new_name, email, password) /\ Arrive
    \/ RenameFindAdmin(Solo) /\ Keep
    \/ RenameFindNew(Solo) /\ Keep
    \/ RenameReadDocs(Solo) /\ Keep
    \/ RenameInsertMany(Solo) /\ Keep
    \/ RenameUpdateOrg(Solo) /\ Keep
    \/ RenameUpdateAdmin(Solo) /\ Keep
    \/ RenameDrop(Solo) /\ Keep
    \/ \E name \in Names, token \in tokens \cup ForgedTokens :
            DeleteFindOrg(Solo, name, token) /\ Arrive
    \/ DeleteFindAdmin(Solo) /\ Keep
    \/ DeleteDrop(Solo) /\ Keep
    \/ DeleteOrg(Solo) /\ Keep
    \/ DeleteAdmins(Solo) /\ Keep
    \/ \E email \in Emails, password \in Passwords :
            AdminLogin(Solo, email, password) /\ Arrive
    \/ Return(Solo) /\ Forget
    \/ Tick /\ Keep

SeqSpec == Init /\ [][SeqNext]_vars

(***************************************************************************)
(* Properties.  In SeqSpec the one client is Solo, and pre is the database *)
(* the request in progress (or just finished) found on arrival.            *)
(***************************************************************************)
\* slot p has finished a request of kind op
Done(p, op) == pc[p] = "done" /\ req[p].op = op

\* the database is as the current request found it
SameDb == orgs = pre.orgs /\ admins = pre.admins /\ colls = pre.colls

\* the documents of a collection, as a set
Records(docs) == {docs[i] : i \in 1..Len(docs)}

\* C1: after a successful Rename the partition named by the transform of new_name
\* holds exactly the records the old partition held, and the old partition is gone.
C1_RenameMovesEveryRecord ==
    (Done(Solo, "rename") /\ resp[Solo].status = 200) =>
        LET oldc == FindOrgIn(pre.orgs, req[Solo].name).collection_name
            newc == sanitize_collection_name(req[Solo].new_name)
        IN  /\ Records(colls[newc]) = Records(pre.colls[oldc])
            /\ Len(colls[newc]) = Len(pre.colls[oldc])
            /\ (oldc # newc => colls[oldc] = <<>>)

\* C2: of two Creates of the same name on an empty registry, in any interleaving,
\* one succeeds (201) and the other ends in Conflict (400), and one Organization
\* record with that name exists afterwards.
C2_DuplicateCreateConflict ==
    (/\ served = 2
     /\ Done(1, "create") /\ Done(2, "create")
     /\ req[1].name = req[2].name) =>
        /\ {resp[1].status, resp[2].status} = {201, 400}
        /\ Cardinality({o \in orgs : o.organization_name = req[1].name}) = 1

\* C3: a Create whose name differs from a registered name but maps to the same
\* partition name, with an unused email, fails and changes nothing.
C3_CollidingCreateFails ==
    (/\ Done(Solo, "create")
     /\ \E o \in pre.orgs :
            /\ o.organization_name # req[Solo].name
            /\ sanitize_collection_name(o.organization_name)
                   = sanitize_collection_name(req[Solo].name)
     /\ FindAdminIn(pre.admins, req[Solo].email) = NoAdmin) =>
        /\ resp[Solo].status # 201
        /\ SameDb

\* C4: after a successful Delete(name) no Organization record has that name, the
\* partition the record pointed to does not exist, no Admin record refers to the
\* name, and Get(name) answers NotFound.
C4_DeleteRemovesAll ==
    (Done(Solo, "delete") /\ resp[Solo].status = 200) =>
        LET name == req[Solo].name
            o == FindOrgIn(pre.orgs, name)
        IN  /\ FindOrg(name) = NoOrg
            /\ colls[o.collection_name] = <<>>
            /\ \A a \in admins : a.organization_name # name
            /\ GetResponse(name).status = 404

C4_Witness ==
    /\ Done(Solo, "delete") /\ resp[Solo].status = 200
    /\ pre.colls[FindOrgIn(pre.orgs, req[Solo].name).collection_name] # <<>>
    /\ \E a \in pre.admins : a.organization_name = req[Solo].name

\* C5: a Delete of a registered organization with a validly signed unexpired token
\* succeeds only if the Admin of the token's subject belongs to that organization;
\* otherwise (also when that Admin no longer exists) it is Forbidden and the
\* database is unchanged.
C5_DeleteOnlyOwnOrganization ==
    (/\ Done(Solo, "delete")
     /\ get_current_admin(req[Solo].token, now).ok
     /\ FindOrgIn(pre.orgs, req[Solo].name) # NoOrg) =>
        LET owner == FindAdminIn(pre.admins, req[Solo].token.sub).organization_name
                         = req[Solo].name
        IN  /\ resp[Solo].status = 200 => owner
            /\ ~owner => (resp[Solo].status = 403 /\ SameDb)

\* the outcome the four checks of Rename give, in their order, on a database
RenameChecks(db, old_name, new_name, email, password) ==
    LET admin == FindAdminIn(db.admins, email) IN
    IF FindOrgIn(db.orgs, old_name) = NoOrg
        THEN <<404, "Organization not found">>
    ELSE IF admin = NoAdmin \/ admin.organization_name # old_name
        THEN <<403, "Unauthorized: Invalid admin credentials">>
    ELSE IF admin.password # hash_password(password)
        THEN <<403, "Unauthorized: Invalid password">>
    ELSE IF new_name # old_name /\ FindOrgIn(db.orgs, new_name) # NoOrg
        THEN <<400, "New organization name already exists">>
    ELSE <<0, "">>

\* C6: Rename checks NotFound, then Forbidden (admin), then Forbidden (password),
\* then Conflict; it succeeds only if none applies, and a Rename that fails with
\* one of them leaves the database as it was.
C6_RenameCheckOrder ==
    Done(Solo, "rename") =>
        LET r == req[Solo]
            expected == RenameChecks(pre, r.name, r.new_name, r.email, r.password)
        IN  /\ expected[1] # 0 =>
                   /\ resp[Solo].status = expected[1]
                   /\ resp[Solo].detail = expected[2]
            /\ resp[Solo].status = 200 => expected[1] = 0
            /\ resp[Solo].status \in {404, 403, 400} => SameDb

C6_Witness ==
    /\ Done(Solo, "rename")
    /\ resp[Solo].status = 400
    /\ FindAdminIn(pre.admins, req[Solo].email).organization_name = req[Solo].name

\* C7: a Login with a registered email and a wrong password and a Login with an
\* unregistered email get the identical response, 401 with one message, and
\* neither is issued a token.
C7_LoginDoesNotLeak ==
    Done(Solo, "login") =>
        LET admin == FindAdminIn(pre.admins, req[Solo].email)
            unknown_email == admin = NoAdmin
            wrong_password == admin # NoAdmin
                                /\ admin.password # hash_password(req[Solo].password)
        IN  (unknown_email \/ wrong_password) =>
                /\ resp[Solo] = Response(401, "Invalid email or password")
                /\ resp[Solo].token = NoToken
                /\ resp[Solo].token \notin tokens

C7_Witness ==
    /\ Done(Solo, "login")
    /\ resp[Solo].status = 401
    /\ FindAdminIn(pre.admins, req[Solo].email) # NoAdmin
    /\ \E e \in Emails : FindAdminIn(pre.admins, e) = NoAdmin

\* C8: the token of a successful Login carries the email, organization id,
\* organization name and role of the Admin record as stored at login, and
\* expires 30 minutes after it was issued, not after the 15-minute default.
C8_LoginTokenClaims ==
    (Done(Solo, "login") /\ resp[Solo].status = 200) =>
        LET admin == FindAdminIn(pre.admins, req[Solo].email)
            token == resp[Solo].token
        IN  /\ admin # NoAdmin
            /\ token.sig = "valid"
            /\ token.sub = admin.email
            /\ token.org_id = admin.organization_id
            /\ token.org_name = admin.organization_name
            /\ token.role = admin.role
            /\ token.exp = now + 30
            /\ token.exp # now + 15

C8_Witness ==
    /\ Done(Solo, "login") /\ resp[Solo].status = 200
    /\ now > 0
    /\ resp[Solo].token.org_name # NameXyz

\* the kind of failure a response of get_current_admin reports
Expired(r) == r.status = 401 /\ r.detail = "Token has expired"
Invalid(r) ==
    /\ r.status = 401
    /\ r.detail \in {"Could not validate credentials",
                     "Invalid authentication credentials"}

\* the bearer token of the Delete request in slot p is signed with the key and
\* well-formed
Signed(p) == req[p].token.sig = "valid"
PastExpiry(p) == req[p].token.exp < now
LacksClaim(p) == req[p].token.sub = None \/ req[p].token.org_id = NoId

\* C9 as stated: every token that lacks the subject or org_id claim fails with
\* Invalid (also one that is correctly signed and past its expiry).
C9_LacksClaimInvalid ==
    (Done(Solo, "delete") /\ Signed(Solo) /\ LacksClaim(Solo)) => Invalid(resp[Solo])

\* C9 amended: whatever the database holds, a correctly signed token past its
\* expiry fails with Expired; a malformed or wrongly signed token, and a correctly
\* signed unexpired token lacking subject or org_id, fails with Invalid; a
\* correctly signed unexpired token with both claims is accepted and yields its
\* email and org_id.  No response is both Expired and Invalid.
C9_TokenValidation ==
    LET p == Solo IN
    (pc[p] # "idle" /\ req[p].op = "delete") =>
        /\ (Signed(p) /\ PastExpiry(p)) => (pc[p] = "done" /\ Expired(resp[p]))
        /\ (~Signed(p) \/ (~PastExpiry(p) /\ LacksClaim(p))) =>
               (pc[p] = "done" /\ Invalid(resp[p]))
        /\ (Signed(p) /\ ~PastExpiry(p) /\ ~LacksClaim(p)) =>
               /\ resp[p].status # 401
               /\ pc[p] # "done" =>
                      loc[p].current_admin = [email |-> req[p].token.sub,
                                              org_id |-> req[p].token.org_id]
        /\ ~(Expired(resp[p]) /\ Invalid(resp[p]))

C9_Witness ==
    /\ Done(Solo, "delete")
    /\ Expired(resp[Solo])
    /\ req[Solo].token \in tokens
    /\ orgs # {}

\* C10: in every reachable state of concurrently served requests no two
\* Organization records have the same organization_name and no two Admin
\* records have the same email.
C10_UniqueNamesAndEmails ==
    /\ \A o1, o2 \in orgs : o1.organization_name = o2.organization_name => o1 = o2
    /\ \A a1, a2 \in admins : a1.email = a2.email => a1 = a2

C10_Witness ==
    /\ \E p \in Procs : Done(p, "create") /\ resp[p].detail = "DuplicateKeyError"
    /\ \E p \in Procs : pc[p] \notin {"idle", "done"}

\* no request is in progress in slot p
Quiet(p) == pc[p] \in {"idle", "done"}

\* slot p has finished a request without a failure of the store (HTTP 500)
Completed(p) == pc[p] = "done" /\ resp[p].status # 500

\* every registered organization's partition exists and no partition is shared
OnePartitionEach(os, cs) ==
    /\ \A o \in os : cs[o.collection_name] # <<>>
    /\ \A o1, o2 \in os : o1.collection_name = o2.collection_name => o1 = o2

\* C11: a Create, Rename or Delete that runs to completion without store failure
\* on a database in which every registered Organization's partition exists and
\* no two Organizations share a partition leaves such a database.
C11_OnePartitionPerOrganization ==
    (/\ Completed(Solo)
     /\ req[Solo].op \in {"create", "rename", "delete"}
     /\ OnePartitionEach(pre.orgs, pre.colls)) =>
        OnePartitionEach(orgs, colls)

\* C12: every Organization record's collection_name is the transform of its
\* organization_name, and the partition name a successful Create or Rename
\* returns is the transform of the name the organization then has.
C12_PartitionNameIsTransform ==
    /\ \A o \in orgs :
           o.collection_name = sanitize_collection_name(o.organization_name)
    /\ (Done(Solo, "create") /\ resp[Solo].status = 201) =>
           /\ FindOrg(req[Solo].name) # NoOrg
           /\ resp[Solo].collection_name = FindOrg(req[Solo].name).collection_name
    /\ (Done(Solo, "rename") /\ resp[Solo].status = 200) =>
           /\ FindOrg(req[Solo].new_name) # NoOrg
           /\ resp[Solo].collection_name = FindOrg(req[Solo].new_name).collection_name

C12_Witness ==
    /\ Done(Solo, "rename") /\ resp[Solo].status = 200
    /\ req[Solo].new_name = NameAdashB
    /\ req[Solo].name = NameXyz
    /\ FindOrg(NameAdashB).collection_name = <<"o", "r", "g", "_", "a", "_", "b">>

\* C13: with requests served one at a time, whenever no request is in progress
\* every Admin record's organization_id is the id of a registered Organization
\* and its organization_name is that Organization's current name.
C13_AdminOrganizationSync ==
    Quiet(Solo) =>
        \A a \in admins :
            \E o \in orgs : /\ o.id = a.organization_id
                             /\ o.organization_name = a.organization_name

C13_Witness ==
    /\ Done(Solo, "rename") /\ resp[Solo].status = 200
    /\ req[Solo].new_name # req[Solo].name
    /\ Cardinality(admins) = 2
    /\ \E a \in admins : a.organization_name = req[Solo].new_name

\* C14: with requests served concurrently, whenever no request is in progress
\* every registered Organization has exactly one Admin record whose
\* organization_name is the Organization's name.
C14_OneAdminPerOrganization ==
    (\A p \in Procs : Quiet(p)) =>
        \A o \in orgs :
            Cardinality({a \in admins :
                            a.organization_name = o.organization_name}) = 1

\* the checks of Delete pass for this token and name on the current database
DeleteAllowed(token, name) ==
    /\ get_current_admin(token, now).ok
    /\ FindOrg(name) # NoOrg
    /\ DeleteCheck(FindAdmin(token.sub), name) = NoResp

\* C15: after a successful Create(name), Get(name) succeeds with status
\* 'active' and Login with the admin's credentials succeeds; after a successful
\* Rename to a different name, Get of the old name is NotFound, Get of the new
\* name succeeds, Login with the same credentials succeeds and a Delete of the
\* new name with that admin's token passes its checks; a Delete that passes its
\* checks succeeds, and after it Get of the name is NotFound.
C15_Lifecycle ==
    /\ (Done(Solo, "create") /\ resp[Solo].status = 201) =>
           /\ GetResponse(req[Solo].name).status = 200
           /\ FindOrg(req[Solo].name).status = "active"
           /\ LoginResponse(req[Solo].email, req[Solo].password).status = 200
    /\ (Done(Solo, "rename") /\ resp[Solo].status = 200
            /\ req[Solo].new_name # req[Solo].name) =>
           LET login == LoginResponse(req[Solo].email, req[Solo].password) IN
           /\ GetResponse(req[Solo].name).status = 404
           /\ GetResponse(req[Solo].new_name).status = 200
           /\ login.status = 200
           /\ DeleteAllowed(login.token, req[Solo].new_name)
    /\ Done(Solo, "delete") =>
           /\ (/\ get_current_admin(req[Solo].token, now).ok
               /\ FindOrgIn(pre.orgs, req[Solo].name) # NoOrg
               /\ DeleteCheck(FindAdminIn(pre.admins, req[Solo].token.sub),
                              req[Solo].name) = NoResp) =>
                  resp[Solo].status = 200
           /\ resp[Solo].status = 200 => GetResponse(req[Solo].name).status = 404

\* a Delete succeeded with a token issued before the organization was renamed
C15_Witness ==
    /\ Done(Solo, "delete") /\ resp[Solo].status = 200
    /\ req[Solo].token \in tokens
    /\ req[Solo].token.org_name # req[Solo].name
    /\ FindOrgIn(pre.orgs, req[Solo].name).id = req[Solo].token.org_id

\* the step taken is a step of the Rename in slot p
RenameStep(p) == req[p].op = "rename" /\ pc'[p] # pc[p]

\* C16 as stated: the old partition is dropped before the Organization record is
\* updated, so it is gone while the updates are pending and after a failed
\* Organization update.
C16_MigrationBeforeRegistry ==
    \A p \in Procs :
        req[p].op = "rename" =>
            /\ (pc[p] \in {"r_update_org", "r_update_admin"}
                    /\ loc[p].documents # <<>>) =>
                   colls[loc[p].existing_org.collection_name] = <<>>
            /\ (pc[p] = "done" /\ resp[p].detail = "DuplicateKeyError") =>
                   colls[sanitize_collection_name(req[p].name)] = <<>>

\* C16 amended: within every Rename the copy into the new partition comes
\* first and touches neither the registry nor the old partition; then the
\* Organization record is updated, then the Admin record, and the old partition
\* is dropped last, by the step that returns success.  An Organization update
\* that fails ends the Rename with the registry, the admins and every partition
\* as that step found them: the old partition is not dropped.
C16_RenameStepOrder ==
    [][\A p \in Procs :
          RenameStep(p) =>
            LET oldc == loc[p].existing_org.collection_name
                newc == sanitize_collection_name(req[p].new_name)
            IN
            /\ pc[p] = "r_read_docs" =>
                   /\ pc'[p] \in {"r_insert_many", "r_update_org"}
                   /\ UNCHANGED <<orgs, admins, colls>>
            /\ pc[p] = "r_insert_many" =>
                   /\ pc'[p] \in {"r_update_org", "done"}
                   /\ UNCHANGED <<orgs, admins>>
                   /\ \A c \in CollNames : c # newc => colls'[c] = colls[c]
                   /\ pc'[p] = "r_update_org" =>
                          Records(loc[p].documents) \subseteq Records(colls'[newc])
            /\ pc[p] = "r_update_org" =>
                   /\ pc'[p] \in {"r_update_admin", "done"}
                   /\ UNCHANGED <<admins, colls>>
                   /\ pc'[p] = "done" => (orgs' = orgs /\ resp'[p].status = 500)
            /\ pc[p] = "r_update_admin" =>
                   /\ pc'[p] = "r_drop"
                   /\ UNCHANGED <<orgs, colls>>
            /\ pc[p] = "r_drop" =>
                   /\ pc'[p] = "done"
                   /\ resp'[p].status = 200
                   /\ colls'[oldc] = <<>>
                   /\ UNCHANGED <<orgs, admins>>
      ]_vars

\* a Rename ended in a failed Organization update after its copy, and the old
\* partition and the old registry entry are still there
C16_Witness ==
    \E p \in Procs :
        /\ Done(p, "rename")
        /\ resp[p].detail = "DuplicateKeyError"
        /\ FindOrg(req[p].name) # NoOrg
        /\ colls[FindOrg(req[p].name).collection_name] # <<>>
        /\ colls[sanitize_collection_name(req[p].new_name)] # <<>>

\* C17: a Rename that passes its four checks and whose new_name maps to the
\* organization's current partition name succeeds, and leaves the organization
\* registered under new_name with that partition existing and holding exactly
\* the records it held before the call.
C17_RenameOntoSamePartition ==
    (/\ Done(Solo, "rename")
     /\ RenameChecks(pre, req[Solo].name, req[Solo].new_name, req[Solo].email,
                     req[Solo].password)[1] = 0
     /\ sanitize_collection_name(req[Solo].new_name)
            = FindOrgIn(pre.orgs, req[Solo].name).collection_name) =>
        LET c == sanitize_collection_name(req[Solo].new_name) IN
        /\ resp[Solo].status = 200
        /\ FindOrg(req[Solo].new_name) # NoOrg
        /\ FindOrg(req[Solo].new_name).collection_name = c
        /\ colls[c] # <<>>
        /\ colls[c] = pre.colls[c]

\* C19: a Delete succeeds only for the organization whose id is the org_id
\* claim of the token presented.
C19_TokenDeletesOnlyItsOrganization ==
    (Done(Solo, "delete") /\ resp[Solo].status = 200) =>
        FindOrgIn(pre.orgs, req[Solo].name).id = req[Solo].token.org_id

\* C20: Create checks the name before the email; a Create that ends in Conflict
\* leaves the database as it was; a successful Create adds one Organization
\* record with status 'active', one Admin record with the new organization's
\* id and name, and a partition that holds only the initialization marker.
C20_CreateFrame ==
    Done(Solo, "create") =>
        LET r == req[Solo]
            name_taken == FindOrgIn(pre.orgs, r.name) # NoOrg
            email_taken == FindAdminIn(pre.admins, r.email) # NoAdmin
            o == FindOrg(r.name)
            c == sanitize_collection_name(r.name)
        IN
        /\ name_taken => resp[Solo] = Response(400, "Organization name already exists")
        /\ (~name_taken /\ email_taken) =>
               resp[Solo] = Response(400, "Admin email already exists")
        /\ resp[Solo].status = 400 => SameDb
        /\ resp[Solo].status = 201 =>
               /\ ~name_taken /\ ~email_taken
               /\ o.status = "active"
               /\ orgs = pre.orgs \cup {o} /\ o \notin pre.orgs
               /\ admins = pre.admins \cup
                      {AdminDocument(r.email, r.password, o.id, r.name)}
               /\ FindAdminIn(pre.admins, r.email) = NoAdmin
               /\ \A d \in CollNames : d # c => colls[d] = pre.colls[d]
               /\ Len(colls[c]) = 1
               /\ colls[c][1].type = "initialization"

\* the Rename in slot p has passed its checks and not yet returned
RenamePastChecks(p) ==
    /\ req[p].op = "rename"
    /\ pc[p] \in {"r_read_docs", "r_insert_many", "r_update_org",
                   "r_update_admin", "r_drop"}

\* the Delete in slot p has passed its checks and not yet returned
DeletePastChecks(p) ==
    /\ req[p].op = "delete"
    /\ pc[p] \in {"d_drop", "d_delete_org", "d_delete_admins"}

\* the next store step of the Rename, or of the Delete, in slot p
RenameStoreStep(p) ==
    (RenameReadDocs(p) \/ RenameInsertMany(p) \/ RenameUpdateOrg(p)
        \/ RenameUpdateAdmin(p) \/ RenameDrop(p)) /\ Run

DeleteStoreStep(p) ==
    (DeleteDrop(p) \/ DeleteOrg(p) \/ DeleteAdmins(p)) /\ Run

\* C18: no lock serializes Rename and Delete: whenever a Rename and a Delete of
\* the same organization have both passed their checks, the next store step of
\* each can be taken at once, whatever step the other is at.  (The inconsistent
\* final state the claim speaks of is C18_Witness.)
C18_NoLockBetweenRenameAndDelete ==
    \A p, q \in Procs :
        (RenamePastChecks(p) /\ DeletePastChecks(q) /\ req[p].name = req[q].name) =>
            /\ ENABLED RenameStoreStep(p)
            /\ ENABLED DeleteStoreStep(q)

\* a Rename(A, B) and a Delete(A) have both returned success, and the
\* organization is registered under B with no Admin record
C18_Witness ==
    \E p, q \in Procs :
        /\ Done(p, "rename") /\ resp[p].status = 200
        /\ Done(q, "delete") /\ resp[q].status = 200
        /\ req[p].name = req[q].name
        /\ req[p].new_name # req[p].name
        /\ FindOrg(req[p].new_name) # NoOrg
        /\ \A a \in admins : a.organization_name # req[p].new_name

\* C21: a Get and a Login, whether they succeed or fail, leave the
\* organizations, the admins and every partition as they found them, and a Get
\* succeeds exactly when its name is registered (otherwise it is NotFound).
C21_GetAndLoginReadOnly ==
    /\ Done(Solo, "get") =>
           /\ SameDb
           /\ resp[Solo].status = 200 <=>
                  (\E o \in orgs : o.organization_name = req[Solo].name)
           /\ resp[Solo].status \in {200, 404}
    /\ Done(Solo, "login") =>
           /\ SameDb
           /\ resp[Solo].status \in {200, 401}

\* a Get of a registered name succeeded while another organization is registered
\* and both partitions hold records
C21_Witness ==
    /\ Done(Solo, "get") /\ resp[Solo].status = 200
    /\ Cardinality(orgs) = 2
    /\ \A c \in CollNames : colls[c] # <<>>

====
